---- MODULE Spec2Model ----
(***************************************************************************)
(* Authentication and session subsystem of corderos-app.                   *)
(*                                                                         *)
(*   app/security.py   session record in the signed cookie: establish,     *)
(*                     load, clear, require_user (expiry + sliding         *)
(*                     renewal), require_admin, optional_user              *)
(*   app/auth_ldap.py  POST /auth/login: service bind, uid search, bind as *)
(*                     the found dn, role lookup, session issue            *)
(*                                                                         *)
(* Time is an integer clock.  Each blocking directory round trip of login  *)
(* is one step; a guard call is one step.                                  *)
(***************************************************************************)
EXTENDS Integers, FiniteSets, Sequences, TLC

\* Session lifetime in clock ticks (the value _session_ttl_seconds returns,
\* scaled down) and the last instant of the clock.
TTL == 3
MaxTime == 4

VARIABLES
    now,        \* time.time()
    carrier,    \* request.session[SESSION_DATA_KEY] as carried by the cookie
    admins,     \* dns that are member of cn=admins in the directory
    login,      \* the POST /auth/login request in flight, or its response
    conns,      \* directory connections whose `with` block the login
                \* handler is in
    gres,       \* outcome of the guard call that has just returned
    lastFail,   \* response of the latest earlier failed login
    issuedAs,   \* subject and role login issued for the record the carrier
                \* descends from, NoIssue when it descends from none
    lastUse,    \* time of the login or of the latest guarded request of the
                \* chain the carrier descends from
    users,      \* <<uid, mail>> of the entries uid=<uid>,ou=Users
    ugroup,     \* dns that are member of cn=users
    dirop,      \* what the admin route that has just returned sent to the
                \* directory
    today,      \* date.today()
    bet,        \* the rows of table apuestas with the id the requests name:
                \* none or one
    reqs        \* the edit and delete requests on that id, one per worker
                \* thread

vars ==
    <<now, carrier, admins, login, conns, gres, lastFail, issuedAs, lastUse,
      users, ugroup, dirop, today, bet, reqs>>

\* The directory content the admin routes write, and the bets table.
dirvars == <<users, ugroup, dirop>>
betvars == <<today, bet, reqs>>

(***************************************************************************)
(* Python values found in a session record.                                *)
(***************************************************************************)
\* A raw value of issued_at / expires_at as json.loads may deliver it.
Num(n) == [kind |-> "num", n |-> n]          \* a float or a small int
NumStr(n) == [kind |-> "numstr", n |-> n]    \* a str float() can parse
BadStr == [kind |-> "badstr", n |-> 0]       \* a str float() cannot parse
NoneVal == [kind |-> "none", n |-> 0]        \* null
BigInt == [kind |-> "big", n |-> 0]          \* an int beyond the float range

\* float(v): the value, or the exception it raises.
ToFloat(v) ==
    CASE v.kind = "num" -> [exc |-> "", n |-> v.n]
      [] v.kind = "numstr" -> [exc |-> "", n |-> v.n]
      [] v.kind = "badstr" -> [exc |-> "ValueError", n |-> 0]
      [] v.kind = "none" -> [exc |-> "TypeError", n |-> 0]
      [] OTHER -> [exc |-> "OverflowError", n |-> 0]

\* bool(v) of a raw is_admin: "true", "false", "str" (a non-empty str) or
\* "none" (null).
ToBool(v) == v \in {"true", "str"}

SessionKeys == {"uid", "is_admin", "issued_at", "expires_at"}

\* What request.session holds under SESSION_DATA_KEY: nothing, a value that
\* is no dict, or a dict with some keys.  A key that is absent holds the
\* filler value here.
Missing ==
    [shape |-> "missing", keys |-> {}, uid |-> "", is_admin |-> "none",
     issued_at |-> NoneVal, expires_at |-> NoneVal]

NotDict ==
    [shape |-> "notdict", keys |-> {}, uid |-> "", is_admin |-> "none",
     issued_at |-> NoneVal, expires_at |-> NoneVal]

Dict(keys, uid, adm, ia, ea) ==
    [shape |-> "dict", keys |-> keys,
     uid |-> IF "uid" \in keys THEN uid ELSE "",
     is_admin |-> IF "is_admin" \in keys THEN adm ELSE "none",
     issued_at |-> IF "issued_at" \in keys THEN ia ELSE NoneVal,
     expires_at |-> IF "expires_at" \in keys THEN ea ELSE NoneVal]

\* The SessionUser dict as it is stored in the cookie.
Stored(u) ==
    Dict(SessionKeys, u.uid, IF u.is_admin THEN "true" ELSE "false",
         Num(u.issued_at), Num(u.expires_at))

NoUser == [uid |-> "", is_admin |-> FALSE, issued_at |-> 0, expires_at |-> 0]

(***************************************************************************)
(* app/security.py                                                         *)
(***************************************************************************)
\* _load_session_user without the required_keys test: reading an absent key
\* raises KeyError, which the function does not catch.
LoadSessionUser_NoKeyCheck(data) ==
    IF data.shape # "dict"
    THEN [res |-> "none", user |-> NoUser]
    ELSE IF ~(SessionKeys \subseteq data.keys)
    THEN [res |-> "raise", user |-> NoUser]
    ELSE LET ia == ToFloat(data.issued_at)
             ea == ToFloat(data.expires_at)
             exc == IF ia.exc # "" THEN ia.exc ELSE ea.exc
         IN  IF exc = ""
             THEN [res |-> "user",
                   user |-> [uid |-> data.uid,
                             is_admin |-> ToBool(data.is_admin),
                             issued_at |-> ia.n,
                             expires_at |-> ea.n]]
             ELSE IF exc \in {"TypeError", "ValueError"}
             THEN [res |-> "none", user |-> NoUser]
             ELSE [res |-> "raise", user |-> NoUser]

\* _load_session_user: the SessionUser built from the stored value, None,
\* or an exception the function does not catch.
LoadSessionUser(data) ==
    IF data.shape # "dict"
    THEN [res |-> "none", user |-> NoUser]
    ELSE IF ~(SessionKeys \subseteq data.keys)
    THEN [res |-> "none", user |-> NoUser]
    ELSE LET ia == ToFloat(data.issued_at)
             ea == ToFloat(data.expires_at)
             exc == IF ia.exc # "" THEN ia.exc ELSE ea.exc
         IN  IF exc = ""
             THEN [res |-> "user",
                   user |-> [uid |-> data.uid,
                             is_admin |-> ToBool(data.is_admin),
                             issued_at |-> ia.n,
                             expires_at |-> ea.n]]
             ELSE IF exc \in {"TypeError", "ValueError"}
             THEN [res |-> "none", user |-> NoUser]
             ELSE [res |-> "raise", user |-> NoUser]

\* establish_session that forgets to add the ttl.
EstablishSession_NoTtl(uid, is_admin, t) ==
    [uid |-> uid, is_admin |-> is_admin, issued_at |-> t, expires_at |-> t]

\* establish_session that keeps the Admin role of the record it replaces.
EstablishSession_KeepRole(uid, is_admin, t) ==
    [uid |-> uid, is_admin |-> is_admin \/ ToBool(carrier.is_admin),
     issued_at |-> t, expires_at |-> t + TTL]

\* establish_session: the SessionUser it builds at time t.
EstablishSession(uid, is_admin, t) ==
    [uid |-> uid, is_admin |-> is_admin, issued_at |-> t, expires_at |-> t + TTL]

\* clear_session: request.session.pop(SESSION_DATA_KEY, None)
ClearSession(data) == Missing

\* The expiry test with < for <=.
Expired_Strict(user, t) == user.expires_at < t

\* require_user, line 75: the expiry test.
Expired(user, t) == user.expires_at <= t

\* A require_user that never renews.
RefreshDue_Never(user, t) == FALSE

\* The renewal test against the whole ttl instead of half of it.
RefreshDue_WholeTtl(user, t) == user.expires_at - t <= TTL

\* require_user, line 81: expires_at - now <= ttl / 2.
RefreshDue(user, t) == 2 * (user.expires_at - t) <= TTL

\* A renewal that asks the directory for the role again.
Refreshed_Requery(user, t) ==
    [uid |-> user.uid,
     is_admin |-> \E e \in {[dn |-> "uid=alice,ou=Users", uid |-> "alice"],
                            [dn |-> "uid=bob,ou=Users", uid |-> "bob"]} :
                     e.uid = user.uid /\ e.dn \in admins,
     issued_at |-> t, expires_at |-> t + TTL]

\* A renewal that grants twice the ttl.
Refreshed_Double(user, t) ==
    [uid |-> user.uid, is_admin |-> user.is_admin,
     issued_at |-> t, expires_at |-> t + 2 * TTL]

\* A renewal that keeps the issue time of the record it replaces.
Refreshed_KeepIssued(user, t) ==
    [uid |-> user.uid, is_admin |-> user.is_admin,
     issued_at |-> user.issued_at, expires_at |-> t + TTL]

\* require_user, lines 82-87: the refreshed record.
Refreshed(user, t) ==
    [uid |-> user.uid, is_admin |-> user.is_admin,
     issued_at |-> t, expires_at |-> t + TTL]

Outcome(status, detail, has, user, data) ==
    [status |-> status, detail |-> detail, has |-> has, user |-> user,
     carrier |-> data]

\* require_user that rejects an expired record without clearing it.
RequireUser_NoClear(data, t) ==
    LET l == LoadSessionUser(data)
    IN  IF l.res = "raise"
        THEN Outcome(500, "OverflowError", FALSE, NoUser, data)
        ELSE IF l.res = "none"
        THEN Outcome(401, "Autenticacion requerida", FALSE, NoUser, data)
        ELSE IF Expired(l.user, t)
        THEN Outcome(401, "La sesion ha expirado", FALSE, NoUser, data)
        ELSE IF RefreshDue(l.user, t)
        THEN Outcome(200, "", TRUE, Refreshed(l.user, t), Stored(Refreshed(l.user, t)))
        ELSE Outcome(200, "", TRUE, l.user, data)

\* require_user on stored value `data` at time t: the status (200 when it
\* returns), the session returned and the stored value it leaves.
RequireUser(data, t) ==
    LET l == LoadSessionUser(data)
    IN  IF l.res = "raise"
        THEN Outcome(500, "OverflowError", FALSE, NoUser, data)
        ELSE IF l.res = "none"
        THEN Outcome(401, "Autenticacion requerida", FALSE, NoUser, data)
        ELSE IF Expired(l.user, t)
        THEN Outcome(401, "La sesion ha expirado", FALSE, NoUser, ClearSession(data))
        ELSE IF RefreshDue(l.user, t)
        THEN Outcome(200, "", TRUE, Refreshed(l.user, t), Stored(Refreshed(l.user, t)))
        ELSE Outcome(200, "", TRUE, l.user, data)

\* require_admin without the role test.
RequireAdmin_NoRoleCheck(data, t) == RequireUser(data, t)

\* require_admin that tests the stored role before it validates the record.
RequireAdmin_RoleFirst(data, t) ==
    IF ~ToBool(data.is_admin)
    THEN Outcome(403, "Se requieren privilegios de administrador", FALSE,
                 NoUser, data)
    ELSE RequireUser(data, t)

\* require_admin
RequireAdmin(data, t) ==
    LET r == RequireUser(data, t)
    IN  IF r.status # 200
        THEN r
        ELSE IF ~r.user.is_admin
        THEN Outcome(403, "Se requieren privilegios de administrador", FALSE,
                     NoUser, r.carrier)
        ELSE r

\* optional_user: an HTTPException becomes None, anything else propagates.
OptionalUser(data, t) ==
    LET r == RequireUser(data, t)
    IN  IF r.status \in {401, 403}
        THEN Outcome(200, "", FALSE, NoUser, r.carrier)
        ELSE r

(***************************************************************************)
(* The directory.                                                          *)
(***************************************************************************)
ServiceDn == "cn=service"
ServiceSecret == "svcpw"

\* Two entries share uid=bob (they live under different branches of the
\* search base).
Entries ==
    { [dn |-> "uid=alice,ou=Users", uid |-> "alice", secret |-> "pa"],
      [dn |-> "uid=bob,ou=Users", uid |-> "bob", secret |-> "pb"],
      [dn |-> "uid=bob,ou=Staff", uid |-> "bob", secret |-> "pa"] }

Accounts == Entries \cup {[dn |-> ServiceDn, uid |-> "", secret |-> ServiceSecret]}

Usernames == {"alice", "bob", "zed"}
Passwords == {"pa", "pb", "bad"}

\* The dn whose membership of cn=admins changes while the program runs.
ToggledDn == "uid=alice,ou=Users"

\* A bind that does not compare the secret.
BindSucceeds_AnySecret(dn, secret, up) ==
    up /\ \E e \in Accounts : e.dn = dn

\* Connection(server, dn, secret, auto_bind=True): it binds when the
\* directory answers (up) and the secret is the entry's.
BindSucceeds(dn, secret, up) ==
    up /\ \E e \in Accounts : e.dn = dn /\ e.secret = secret

\* The entries the filter (uid={username}) selects.
Matches(username) == {e \in Entries : e.uid = username}

\* login, line 136.
UidValue(entry, username) == IF entry.uid # "" THEN entry.uid ELSE username

\* is_admin whose filter lacks the (member={user_dn}) clause.
IsAdmin_AnyMember(out, user_dn) == out = "ok"

\* is_admin: the search succeeded and returned the admins group.
IsAdmin(out, user_dn) == out = "ok" /\ user_dn \in admins

(***************************************************************************)
(* State.                                                                  *)
(***************************************************************************)
\* Cookie payloads a browser may present that this release did not issue:
\* no cookie, a payload of another shape, dicts lacking keys, and complete
\* dicts with values of every JSON type.
Presented ==
    {Missing, NotDict, Dict({}, "", "none", NoneVal, NoneVal)}
    \cup {Dict(SessionKeys \ {k}, "alice", "true", Num(0), Num(MaxTime + 1)) :
            k \in SessionKeys}
    \cup {Dict(SessionKeys, "alice", a, Num(0), Num(e)) :
            a \in {"true", "false"}, e \in {1, MaxTime}}
    \cup {Dict(SessionKeys, "alice", "str", NumStr(0), NumStr(TTL)),
          Dict(SessionKeys, "alice", "none", Num(0), Num(TTL)),
          Dict(SessionKeys, "alice", "true", BadStr, Num(TTL)),
          Dict(SessionKeys, "alice", "true", Num(0), NoneVal),
          Dict(SessionKeys, "alice", "true", BigInt, Num(TTL)),
          Dict(SessionKeys, "alice", "true", Num(0), BigInt)}

NoCall ==
    [op |-> "none", in |-> Missing, status |-> 0, detail |-> "", has |-> FALSE,
     user |-> NoUser]

Returned(op, data, r) ==
    [op |-> op, in |-> data, status |-> r.status, detail |-> r.detail,
     has |-> r.has, user |-> r.user]

LoginIdle ==
    [pc |-> "idle", username |-> "", password |-> "", found |-> 0,
     user_dn |-> "", uid_value |-> "", bound |-> FALSE, is_user_admin |-> FALSE,
     done |-> {}, status |-> 0, detail |-> "", wrote |-> FALSE,
     session |-> NoUser, member |-> FALSE, role_out |-> "", open |-> {}]

NoResponse == [status |-> 0, detail |-> ""]

NoIssue == [uid |-> "", is_admin |-> FALSE]

Init ==
    /\ now = 0
    /\ carrier = Missing
    /\ admins = {"uid=bob,ou=Users"}
    /\ login = LoginIdle
    /\ conns = {}
    /\ gres = NoCall
    /\ lastFail = NoResponse
    /\ issuedAs = NoIssue
    /\ lastUse = 0
    /\ users = {<<"alice", "m0">>, <<"bob", "m0">>}
    /\ ugroup = {"uid=alice,ou=Users"}
    /\ dirop = "none"
    /\ today = 0
    /\ bet = <<>>
    /\ reqs = {}

\* time.time() advances.
Tick ==
    /\ now < MaxTime
    /\ now' = now + 1
    /\ gres' = NoCall
    /\ UNCHANGED <<carrier, admins, login, conns, lastFail, issuedAs, lastUse>>
    /\ UNCHANGED <<dirvars, betvars>>

\* The browser comes with another cookie payload.
Present ==
    /\ \E c \in Presented : carrier' = c
    /\ issuedAs' = NoIssue
    /\ lastUse' = 0
    /\ gres' = NoCall
    /\ UNCHANGED <<now, admins, login, conns, lastFail>>
    /\ UNCHANGED <<dirvars, betvars>>

\* The directory administrator changes the membership of cn=admins.
GroupChange ==
    /\ admins' = IF ToggledDn \in admins THEN admins \ {ToggledDn}
                 ELSE admins \cup {ToggledDn}
    /\ gres' = NoCall
    /\ UNCHANGED <<now, carrier, login, conns, lastFail, issuedAs, lastUse>>
    /\ UNCHANGED <<dirvars, betvars>>

(***************************************************************************)
(* Guarded requests.                                                       *)
(***************************************************************************)
\* A request passes through a guard: the guard's result, the stored value
\* it leaves, and the chain the carrier belongs to.
Admit(op, r) ==
    /\ gres' = Returned(op, carrier, r)
    /\ carrier' = r.carrier
    /\ issuedAs' = IF r.carrier = Missing THEN NoIssue ELSE issuedAs
    /\ lastUse' = IF r.carrier = Missing \/ issuedAs = NoIssue THEN 0 ELSE now
    /\ UNCHANGED <<now, login, conns, lastFail>>

Guard(op, r) ==
    /\ Admit(op, r)
    /\ UNCHANGED <<admins, dirvars, betvars>>

RequireUserCall == Guard("require_user", RequireUser(carrier, now))

RequireAdminCall == Guard("require_admin", RequireAdmin(carrier, now))

OptionalUserCall == Guard("optional_user", OptionalUser(carrier, now))

\* A logout that redirects without touching the session.
LogoutResponse_Keep(data) == Outcome(303, "/login", FALSE, NoUser, data)

\* _logout_response: clear_session, then request.session.clear(), then the
\* redirect to /login.
LogoutResponse(data) ==
    Outcome(303, "/login", FALSE, NoUser, ClearSession(data))

\* POST /auth/logout
Logout ==
    /\ gres' = Returned("logout", carrier, LogoutResponse(carrier))
    /\ carrier' = LogoutResponse(carrier).carrier
    /\ issuedAs' = NoIssue
    /\ lastUse' = 0
    /\ UNCHANGED <<now, admins, login, conns, lastFail>>
    /\ UNCHANGED <<dirvars, betvars>>

(***************************************************************************)
(* POST /auth/login                                                        *)
(***************************************************************************)
\* Connection(server, dn, secret, auto_bind=True) binds in the constructor,
\* so the connection is bound when its `with` block is entered.
BoundOnEntry(c) == TRUE

\* The connections of `open` that are still bound after the handler has
\* left the `with` blocks of the connections `left`.  The handler calls
\* unbind() nowhere; closing is left to Connection.__exit__, which restores
\* the state the connection was entered in and so unbinds only a connection
\* that was not bound on entry.
AfterWith(open, left) == {c \in open : c \notin left \/ BoundOnEntry(c)}

\* A handler that lets the directory error through as a server error.
LoginFails_Surface(detail) ==
    /\ login' = [login EXCEPT !.pc = "failed", !.status = 500,
                              !.detail = "LDAPSocketOpenError",
                              !.open = AfterWith(@, conns)]
    /\ conns' = {}
    /\ UNCHANGED <<carrier, issuedAs, lastUse>>

\* A handler that clears the session before it reports the failure.
LoginFails_ClearFirst(detail) ==
    /\ login' = [login EXCEPT !.pc = "failed", !.status = 401, !.detail = detail,
                              !.open = AfterWith(@, conns)]
    /\ conns' = {}
    /\ carrier' = ClearSession(carrier)
    /\ issuedAs' = NoIssue
    /\ lastUse' = 0

\* The handler raises HTTPException(401, detail) and leaves every `with`
\* block it is in.
LoginFails(detail) ==
    /\ login' = [login EXCEPT !.pc = "failed", !.status = 401, !.detail = detail,
                              !.open = AfterWith(@, conns)]
    /\ conns' = {}
    /\ UNCHANGED <<carrier, issuedAs, lastUse>>

\* A login that is refused once an attempt has failed.
LoginStart_Lockout ==
    /\ login.pc \in {"idle", "ok"}
    /\ lastFail = NoResponse
    /\ \E u \in Usernames, p \in Passwords :
          login' = [LoginIdle EXCEPT !.pc = "svc_bind", !.username = u,
                                     !.password = p]
    /\ gres' = NoCall
    /\ UNCHANGED <<now, carrier, admins, conns, lastFail, issuedAs, lastUse>>
    /\ UNCHANGED <<dirvars, betvars>>

\* A login request arrives; the response of the previous one has been sent.
LoginStart ==
    /\ login.pc \in {"idle", "ok", "failed"}
    /\ \E u \in Usernames, p \in Passwords :
          login' = [LoginIdle EXCEPT !.pc = "svc_bind", !.username = u,
                                     !.password = p]
    /\ lastFail' = IF login.pc = "failed"
                   THEN [status |-> login.status, detail |-> login.detail]
                   ELSE lastFail
    /\ gres' = NoCall
    /\ UNCHANGED <<now, carrier, admins, conns, issuedAs, lastUse>>
    /\ UNCHANGED <<dirvars, betvars>>

\* line 124: bind as the service account.
LoginServiceBind ==
    /\ login.pc = "svc_bind"
    /\ \E up \in BOOLEAN :
          IF BindSucceeds(ServiceDn, ServiceSecret, up)
          THEN /\ login' = [login EXCEPT !.pc = "search",
                                         !.done = @ \cup {"service_bind"},
                                         !.open = @ \cup {"service"}]
               /\ conns' = {"service"}
               /\ UNCHANGED <<carrier, issuedAs, lastUse>>
          ELSE LoginFails("Invalid credentials")
    /\ gres' = NoCall
    /\ UNCHANGED <<now, admins, lastFail>>
    /\ UNCHANGED <<dirvars, betvars>>

\* lines 125-136: search (uid={username}); the search raises, or returns
\* nothing because the operation failed, or returns the matching entries in
\* the server's order.  The block of the service connection is left.
LoginSearch ==
    /\ login.pc = "search"
    /\ \E out \in {"ok", "fail", "raise"} :
          LET entries == IF out = "ok" THEN Matches(login.username) ELSE {}
          IN  IF out = "raise"
              THEN LoginFails("Invalid credentials")
              ELSE IF entries = {}
              THEN LoginFails("Invalid user")
              ELSE \E entry \in entries :
                      /\ login' = [login EXCEPT
                             !.pc = "user_bind",
                             !.found = Cardinality(entries),
                             !.user_dn = entry.dn,
                             !.uid_value = UidValue(entry, login.username),
                             !.done = @ \cup {"search"},
                             !.open = AfterWith(@, {"service"})]
                      /\ conns' = {}
                      /\ UNCHANGED <<carrier, issuedAs, lastUse>>
    /\ gres' = NoCall
    /\ UNCHANGED <<now, admins, lastFail>>
    /\ UNCHANGED <<dirvars, betvars>>

\* A login that starts the role lookup without waiting for the user bind.
LoginUserBind_Skipped ==
    /\ login.pc = "user_bind"
    /\ login' = [login EXCEPT !.pc = "role_bind"]
    /\ conns' = {"user"}
    /\ gres' = NoCall
    /\ UNCHANGED <<now, carrier, admins, lastFail, issuedAs, lastUse>>
    /\ UNCHANGED <<dirvars, betvars>>

\* line 138: bind as the found dn with the submitted password.
LoginUserBind ==
    /\ login.pc = "user_bind"
    /\ \E up \in BOOLEAN :
          IF BindSucceeds(login.user_dn, login.password, up)
          THEN /\ login' = [login EXCEPT !.pc = "role_bind", !.bound = TRUE,
                                         !.done = @ \cup {"user_bind"},
                                         !.open = @ \cup {"user"}]
               /\ conns' = {"user"}
               /\ UNCHANGED <<carrier, issuedAs, lastUse>>
          ELSE LoginFails("Invalid credentials")
    /\ gres' = NoCall
    /\ UNCHANGED <<now, admins, lastFail>>
    /\ UNCHANGED <<dirvars, betvars>>

\* line 139: bind as the service account again for the role lookup.
LoginRoleBind ==
    /\ login.pc = "role_bind"
    /\ \E up \in BOOLEAN :
          IF BindSucceeds(ServiceDn, ServiceSecret, up)
          THEN /\ login' = [login EXCEPT !.pc = "role_search",
                                         !.done = @ \cup {"role_bind"},
                                         !.open = @ \cup {"check"}]
               /\ conns' = conns \cup {"check"}
               /\ UNCHANGED <<carrier, issuedAs, lastUse>>
          ELSE LoginFails("Invalid credentials")
    /\ gres' = NoCall
    /\ UNCHANGED <<now, admins, lastFail>>
    /\ UNCHANGED <<dirvars, betvars>>

\* lines 140-145: is_admin, both connections closed, clear_session,
\* establish_session, redirect.
LoginRoleSearch ==
    /\ login.pc = "role_search"
    /\ \E out \in {"ok", "fail", "raise"} :
          IF out = "raise"
          THEN LoginFails("Invalid credentials")
          ELSE LET a == IsAdmin(out, login.user_dn)
                   session == EstablishSession(login.uid_value, a, now)
               IN  /\ login' = [login EXCEPT
                          !.pc = "ok", !.is_user_admin = a,
                          !.done = @ \cup {"role_search"},
                          !.status = 303,
                          !.detail = IF a THEN "/auth/dashboard_admin"
                                     ELSE "/auth/dashboard_user",
                          !.wrote = TRUE, !.session = session,
                          !.member = login.user_dn \in admins,
                          !.role_out = out,
                          !.open = AfterWith(@, {"user", "check"})]
                   /\ carrier' = Stored(session)
                   /\ issuedAs' = [uid |-> login.uid_value, is_admin |-> a]
                   /\ lastUse' = now
                   /\ conns' = {}
    /\ gres' = NoCall
    /\ UNCHANGED <<now, admins, lastFail>>
    /\ UNCHANGED <<dirvars, betvars>>

Next ==
    \/ Tick
    \/ Present
    \/ GroupChange
    \/ RequireUserCall
    \/ RequireAdminCall
    \/ OptionalUserCall
    \/ Logout
    \/ LoginStart
    \/ LoginServiceBind
    \/ LoginSearch
    \/ LoginUserBind
    \/ LoginRoleBind
    \/ LoginRoleSearch

Spec == Init /\ [][Next]_vars

(***************************************************************************)
(* The same program with a directory that may stop answering.              *)
(***************************************************************************)
\* The directory operations of login, in the handler's order.
LoginOps == {"svc_bind", "search", "user_bind", "role_bind", "role_search"}

\* The directory accepts the request of the operation in flight and never
\* answers it.  Server(LDAP_URI, get_info=ALL) and the three Connection(...)
\* calls pass no connect_timeout and no receive_timeout, so the handler
\* stays in the call: nothing ends the wait.
DirectoryStalls ==
    /\ login.pc \in LoginOps
    /\ login' = [login EXCEPT !.pc = "waiting"]
    /\ gres' = NoCall
    /\ UNCHANGED <<now, carrier, admins, conns, lastFail, issuedAs, lastUse>>
    /\ UNCHANGED <<dirvars, betvars>>

\* A step of the thread that runs the login handler.
LoginStep ==
    \/ LoginServiceBind
    \/ LoginSearch
    \/ LoginUserBind
    \/ LoginRoleBind
    \/ LoginRoleSearch

LiveNext ==
    \/ Next
    \/ DirectoryStalls

\* The worker thread is scheduled as long as it can run.
LiveSpec == Init /\ [][LiveNext]_vars /\ WF_vars(LoginStep)

(***************************************************************************)
(* The admin routes of app/auth_ldap.py that write to the directory.       *)
(***************************************************************************)
\* The usernames, mail values and group names the admin forms submit;
\* "nogroup" names a group the directory does not have.
AdminTargets == {"alice", "zed"}
Mails == {"m0", "m1"}
GroupNames == {"admins", "users", "nogroup"}

\* _user_dn
UserDn(username) ==
    CASE username = "alice" -> "uid=alice,ou=Users"
      [] username = "bob" -> "uid=bob,ou=Users"
      [] OTHER -> "uid=zed,ou=Users"

\* The entry uid=<username>,ou=Users exists.
HasEntry(username) == \E e \in users : e[1] = username

\* The response of a route whose guard returned r: the guard's failure, or
\* the handler's own status.
Response(r, status, detail) ==
    IF r.status # 200 THEN r ELSE [r EXCEPT !.status = status, !.detail = detail]

\* A route behind Depends(require_admin) whose guard returned r.  When the
\* guard raises the handler body does not run; else the handler binds as the
\* service account (`up`: the directory answers) and sends `sent`, which
\* leaves the directory as newUsers, newUgroup, newAdmins.
AdminRoute(op, r, up, sent, status, detail, newUsers, newUgroup, newAdmins) ==
    IF r.status # 200
    THEN /\ Admit(op, r)
         /\ dirop' = "none"
         /\ UNCHANGED <<users, ugroup, admins>>
    ELSE IF ~BindSucceeds(ServiceDn, ServiceSecret, up)
    THEN /\ Admit(op, Response(r, 500, "LDAPBindError"))
         /\ dirop' = "bind"
         /\ UNCHANGED <<users, ugroup, admins>>
    ELSE /\ Admit(op, Response(r, status, detail))
         /\ dirop' = sent
         /\ users' = newUsers
         /\ ugroup' = newUgroup
         /\ admins' = newAdmins

\* add_user: conn.add of the entry, then the new dn joins cn=users; an add
\* the directory refuses returns {"error": ...}.
AddUserWith(r) ==
    \E username \in AdminTargets, mail \in Mails, up \in BOOLEAN :
        IF HasEntry(username)
        THEN AdminRoute("add_user", r, up, "add", 200, "error",
                        users, ugroup, admins)
        ELSE AdminRoute("add_user", r, up, "add", 200, "message",
                        users \cup {<<username, mail>>},
                        ugroup \cup {UserDn(username)}, admins)

\* edit_user: conn.modify replaces cn, sn and mail; a modify the directory
\* refuses raises 500.
EditUserWith(r) ==
    \E username \in AdminTargets, mail \in Mails, up \in BOOLEAN :
        IF HasEntry(username)
        THEN AdminRoute("edit_user", r, up, "modify", 303, "/auth/list_users",
                        {e \in users : e[1] # username} \cup {<<username, mail>>},
                        ugroup, admins)
        ELSE AdminRoute("edit_user", r, up, "modify", 500, "noSuchObject",
                        users, ugroup, admins)

\* delete_user: conn.delete of the entry; a delete the directory refuses
\* returns {"error": ...}.  The groups keep the dn as member.
DeleteUserWith(r) ==
    \E username \in AdminTargets, up \in BOOLEAN :
        IF HasEntry(username)
        THEN AdminRoute("delete_user", r, up, "delete", 303, "/auth/list_users",
                        {e \in users : e[1] # username}, ugroup, admins)
        ELSE AdminRoute("delete_user", r, up, "delete", 200, "error",
                        users, ugroup, admins)

\* change_group: the dn leaves every group it is member of, then joins
\* cn={group}; when that modify is refused the route raises 500 and the dn
\* stays out of the groups it has left.
ChangeGroupWith(r) ==
    \E username \in AdminTargets, group \in GroupNames, up \in BOOLEAN :
        LET dn == UserDn(username)
        IN  CASE group = "admins" ->
                   AdminRoute("change_group", r, up, "modify", 303,
                              "/auth/list_users", users,
                              ugroup \ {dn}, admins \cup {dn})
              [] group = "users" ->
                   AdminRoute("change_group", r, up, "modify", 303,
                              "/auth/list_users", users,
                              ugroup \cup {dn}, admins \ {dn})
              [] OTHER ->
                   AdminRoute("change_group", r, up, "modify", 500,
                              "noSuchObject", users,
                              ugroup \ {dn}, admins \ {dn})

AddUser == AddUserWith(RequireAdmin(carrier, now)) /\ UNCHANGED betvars

EditUser == EditUserWith(RequireAdmin(carrier, now)) /\ UNCHANGED betvars

\* delete_user behind Depends(require_user).
DeleteUser_RequireUser ==
    DeleteUserWith(RequireUser(carrier, now)) /\ UNCHANGED betvars

DeleteUser == DeleteUserWith(RequireAdmin(carrier, now)) /\ UNCHANGED betvars

ChangeGroup == ChangeGroupWith(RequireAdmin(carrier, now)) /\ UNCHANGED betvars

AdminNext ==
    \/ Tick
    \/ Present
    \/ AddUser
    \/ EditUser
    \/ DeleteUser
    \/ ChangeGroup

AdminSpec == Init /\ [][AdminNext]_vars

(***************************************************************************)
(* The bets of app/main.py: table apuestas and its lock rules.             *)
(***************************************************************************)
\* Days after which a bet with a result locks itself, and the last day of
\* the calendar.
AUTO_LOCK_DAYS == 3
MaxDay == 3

\* A str | None: None, or the str as its sequence of characters.
None == [none |-> TRUE, s |-> <<>>]
Str(s) == [none |-> FALSE, s |-> s]

\* A date | None.
NoDate == [none |-> TRUE, day |-> 0]
Date(d) == [none |-> FALSE, day |-> d]

\* str.strip()
RECURSIVE Strip(_)
Strip(s) ==
    IF s = <<>> THEN s
    ELSE IF Head(s) = " " THEN Strip(Tail(s))
    ELSE IF s[Len(s)] = " " THEN Strip(SubSeq(s, 1, Len(s) - 1))
    ELSE s

\* str.lower(), on the characters the forms submit.
Lower(s) ==
    [i \in DOMAIN s |-> CASE s[i] = "N" -> "n"
                          [] s[i] = "O" -> "o"
                          [] OTHER -> s[i]]

\* _empty_to_none
EmptyToNone(value) ==
    IF value.none THEN None
    ELSE IF Strip(value.s) = <<>> THEN None
    ELSE Str(Strip(value.s))

\* bool(x) of a str | None
Truthy(value) == ~value.none /\ value.s # <<>>

\* _has_result_fields that asks for a winner only.
HasResultFields_WinnerOnly(winners, losers) ==
    \E i \in DOMAIN winners : Truthy(EmptyToNone(winners[i]))

\* _has_result_fields
HasResultFields(winners, losers) ==
    /\ \E i \in DOMAIN winners : Truthy(EmptyToNone(winners[i]))
    /\ \E i \in DOMAIN losers : Truthy(EmptyToNone(losers[i]))

\* _compute_auto_locked with > for >=.
ComputeAutoLocked_DayLate(manual_locked, result_recorded, auto_lock_released, winners, losers, day) ==
    LET auto_locked ==
            /\ HasResultFields(winners, losers)
            /\ ~result_recorded.none
            /\ ~auto_lock_released
            /\ day > result_recorded.day + AUTO_LOCK_DAYS
    IN  [auto_locked |-> auto_locked,
         effective_locked |-> manual_locked \/ auto_locked]

\* _compute_auto_locked, called on day `day` (date.today()).
ComputeAutoLocked(manual_locked, result_recorded, auto_lock_released, winners, losers, day) ==
    LET auto_locked ==
            /\ HasResultFields(winners, losers)
            /\ ~result_recorded.none
            /\ ~auto_lock_released
            /\ day >= result_recorded.day + AUTO_LOCK_DAYS
    IN  [auto_locked |-> auto_locked,
         effective_locked |-> manual_locked \/ auto_locked]

\* The words _parse_locked_value takes for locked and for unlocked ("true",
\* "yes", "locked", "bloqueada" and "false", "no", "unlocked",
\* "desbloqueada" are of the same kind).
LockedWords == {<<"1">>, <<"y">>, <<"o", "n">>}
UnlockedWords == {<<"0">>, <<"n">>, <<"o", "f", "f">>}

\* _parse_locked_value
ParseLockedValue(value, current) ==
    IF value.none THEN current
    ELSE LET normalized == Lower(Strip(value.s))
         IN  IF normalized \in LockedWords THEN TRUE
             ELSE IF normalized \in UnlockedWords THEN FALSE
             ELSE current

\* The worker threads that serve the edit and delete requests.
Requests == {"r1", "r2"}

\* The cookies the bet requests carry: none, a user's, an administrator's,
\* both issued now (the guard returns them as they are).
BetCarriers ==
    {Missing, Stored(EstablishSession("alice", FALSE, now)),
     Stored(EstablishSession("bob", TRUE, now))}

\* What the forms submit as ganador1, perdedor1 and bloqueo; ganador2 and
\* perdedor2 are left out of the form.
WinnerInputs == {None, Str(<<"a">>), Str(<<" ", "b">>)}
LoserInputs == {Str(<<" ">>), Str(<<"c", " ">>)}
LockInputs == {None, Str(<<"o", "n">>), Str(<<" ", "N">>), Str(<<"x">>)}

\* The columns of a row of apuestas the handlers decide on.  The other
\* columns (apuesta, categoria, tipo, multiplica, apostante*, apostado*) are
\* stored as submitted and read by no decision.
Row(locked, resultado_registrado, auto_lock_released, ganador1, ganador2, perdedor1, perdedor2) ==
    [locked |-> locked, resultado_registrado |-> resultado_registrado,
     auto_lock_released |-> auto_lock_released,
     ganador1 |-> ganador1, ganador2 |-> ganador2,
     perdedor1 |-> perdedor1, perdedor2 |-> perdedor2]

\* SELECT locked, resultado_registrado, auto_lock_released, ganador1,
\* ganador2, perdedor1, perdedor2: the locals a request holds of the row.
Selected(row) ==
    [locked |-> row.locked, resultado_registrado |-> row.resultado_registrado,
     auto_lock_released |-> row.auto_lock_released,
     ganador1 |-> row.ganador1, ganador2 |-> row.ganador2,
     perdedor1 |-> row.perdedor1, perdedor2 |-> row.perdedor2]

NoSelect ==
    [locked |-> FALSE, resultado_registrado |-> NoDate,
     auto_lock_released |-> FALSE, ganador1 |-> None, ganador2 |-> None,
     perdedor1 |-> None, perdedor2 |-> None]

\* A request between its SELECT and its write, and one that has answered.
Writing(r, op, is_admin, row) ==
    [id |-> r, pc |-> "write", op |-> op, is_admin |-> is_admin, row |-> row,
     status |-> 0]
Answered(r, op, status) ==
    [id |-> r, pc |-> "done", op |-> op, is_admin |-> FALSE, row |-> NoSelect,
     status |-> status]

\* The request worker r serves or has served last.
Req(r) == CHOOSE q \in reqs : q.id = r
Free(r) == \A q \in reqs : q.id = r => q.pc = "done"
InWrite(r) == \E q \in reqs : q.id = r /\ q.pc = "write"
Becomes(rec) == reqs' = {q \in reqs : q.id # rec.id} \cup {rec}

sessionvars ==
    <<now, carrier, admins, login, conns, gres, lastFail, issuedAs, lastUse>>

\* The calendar: date.today() moves on.
DayPasses ==
    /\ today < MaxDay
    /\ today' = today + 1
    /\ UNCHANGED <<bet, reqs, sessionvars, dirvars>>

\* crear_apuesta: behind require_user, INSERT of a row that is not locked,
\* with the day of its result when it has one.  The row gets a new id: the
\* requests in flight name the id of an earlier row.
CrearApuesta ==
    \E c \in BetCarriers, ganador1 \in WinnerInputs, perdedor1 \in LoserInputs :
        LET g == RequireUser(c, now)
            winners == <<EmptyToNone(ganador1), EmptyToNone(None)>>
            losers == <<EmptyToNone(perdedor1), EmptyToNone(None)>>
            has_result == HasResultFields(winners, losers)
            resultado_registrado == IF has_result THEN Date(today) ELSE NoDate
        IN  /\ bet = <<>>
            /\ \A r \in Requests : ~InWrite(r)
            /\ bet' = IF g.status # 200 THEN bet
                      ELSE <<Row(FALSE, resultado_registrado, FALSE,
                                 winners[1], winners[2], losers[1], losers[2])>>
            /\ UNCHANGED <<today, reqs, sessionvars, dirvars>>

\* The first half of borrar_apuesta and of actualizar_apuesta, on worker r
\* with cookie c: the guard, the SELECT of the row, 404 when there is none,
\* 403 for a user when the row is effectively locked today.
Select(r, op, c) ==
    LET g == RequireUser(c, now)
    IN  /\ Free(r)
        /\ IF g.status # 200
           THEN Becomes(Answered(r, op, g.status))
           ELSE IF bet = <<>>
           THEN Becomes(Answered(r, op, 404))
           ELSE LET row == bet[1]
                    lock == ComputeAutoLocked(
                                row.locked, row.resultado_registrado,
                                row.auto_lock_released,
                                <<row.ganador1, row.ganador2>>,
                                <<row.perdedor1, row.perdedor2>>, today)
                IN  IF lock.effective_locked /\ ~g.user.is_admin
                    THEN Becomes(Answered(r, op, 403))
                    ELSE Becomes(Writing(r, op, g.user.is_admin,
                                         IF op = "editar" THEN Selected(row)
                                         ELSE NoSelect))
        /\ UNCHANGED <<today, bet, sessionvars, dirvars>>

\* The row actualizar_apuesta writes on day `day` from the locals `s` of its
\* SELECT and the form.
Updated(s, is_admin, ganador1, ganador2, perdedor1, perdedor2, bloqueo, day) ==
    LET current_locked == s.locked
        new_winners == <<EmptyToNone(ganador1), EmptyToNone(ganador2)>>
        new_losers == <<EmptyToNone(perdedor1), EmptyToNone(perdedor2)>>
        prev_clean_winners == <<EmptyToNone(s.ganador1), EmptyToNone(s.ganador2)>>
        prev_clean_losers == <<EmptyToNone(s.perdedor1), EmptyToNone(s.perdedor2)>>
        prev_has_result == HasResultFields(prev_clean_winners, prev_clean_losers)
        new_has_result == HasResultFields(new_winners, new_losers)
        result_changed == \/ new_winners # prev_clean_winners
                          \/ new_losers # prev_clean_losers
        fresh == ~prev_has_result \/ result_changed
        new_result_recorded ==
            IF new_has_result
            THEN IF fresh THEN Date(day) ELSE s.resultado_registrado
            ELSE NoDate
        released ==
            IF new_has_result
            THEN IF fresh THEN FALSE ELSE s.auto_lock_released
            ELSE FALSE
        desired_locked ==
            IF is_admin THEN ParseLockedValue(bloqueo, current_locked)
            ELSE current_locked
        new_auto_lock_released ==
            IF is_admin /\ desired_locked THEN FALSE
            ELSE IF is_admin /\ new_has_result THEN TRUE
            ELSE released
    IN  Row(desired_locked, new_result_recorded, new_auto_lock_released,
            new_winners[1], new_winners[2], new_losers[1], new_losers[2])

\* borrar_apuesta up to its DELETE.
BorrarApuestaSelect(r) ==
    \E c \in BetCarriers : Select(r, "borrar", c)

\* actualizar_apuesta up to its UPDATE.
ActualizarApuestaSelect(r) ==
    \E c \in BetCarriers : Select(r, "editar", c)

\* borrar_apuesta: DELETE FROM apuestas WHERE id, and the redirect.
BorrarApuestaDelete(r) ==
    /\ InWrite(r)
    /\ Req(r).op = "borrar"
    /\ bet' = <<>>
    /\ Becomes(Answered(r, "borrar", 303))
    /\ UNCHANGED <<today, sessionvars, dirvars>>

\* actualizar_apuesta from the form on: UPDATE apuestas SET ... WHERE id,
\* which writes the row that is there now, and the redirect.
UpdateWith(r, ganador1, perdedor1, bloqueo) ==
    /\ InWrite(r)
    /\ Req(r).op = "editar"
    /\ bet' = IF bet = <<>> THEN bet
              ELSE <<Updated(Req(r).row, Req(r).is_admin, ganador1, None,
                             perdedor1, None, bloqueo, today)>>
    /\ Becomes(Answered(r, "editar", 303))
    /\ UNCHANGED <<today, sessionvars, dirvars>>

ActualizarApuestaUpdate(r) ==
    \E ganador1 \in WinnerInputs, perdedor1 \in LoserInputs,
       bloqueo \in LockInputs : UpdateWith(r, ganador1, perdedor1, bloqueo)

BetNext ==
    \/ DayPasses
    \/ CrearApuesta
    \/ \E r \in Requests : BorrarApuestaSelect(r)
    \/ \E r \in Requests : BorrarApuestaDelete(r)
    \/ \E r \in Requests : ActualizarApuestaSelect(r)
    \/ \E r \in Requests : ActualizarApuestaUpdate(r)

BetSpec == Init /\ [][BetNext]_vars

(***************************************************************************)
(* Vocabulary of the properties, stated on the stored value itself.        *)
(***************************************************************************)
Phases == {"service_bind", "search", "user_bind", "role_bind", "role_search"}

\* The submitted password is the secret of the entry login resolved.
SecretMatches ==
    \E e \in Entries : e.dn = login.user_dn /\ e.secret = login.password

\* A complete record whose timestamps are numbers or numeric strings.
WellFormed(data) ==
    /\ data.shape = "dict"
    /\ data.keys = SessionKeys
    /\ data.issued_at.kind \in {"num", "numstr"}
    /\ data.expires_at.kind \in {"num", "numstr"}

\* Missing, not a mapping, or lacking one of the four keys.
Incomplete(data) == data.shape # "dict" \/ data.keys # SessionKeys

\* Complete, with a timestamp float() rejects with TypeError or ValueError.
BadlyTyped(data) ==
    /\ ~Incomplete(data)
    /\ ~WellFormed(data)
    /\ data.issued_at.kind # "big"
    /\ (data.issued_at.kind \in {"num", "numstr"} => data.expires_at.kind # "big")

RoleOf(data) == data.is_admin \in {"true", "str"}

\* The record is well formed and not expired at time t.
Validates(data, t) == WellFormed(data) /\ data.expires_at.n > t

(***************************************************************************)
(* Properties.                                                             *)
(***************************************************************************)
\* C1: a login request ends with a session issued exactly when the search
\* for the submitted identity returned one entry and the bind as that
\* entry's dn with the submitted secret succeeded; every other request ends
\* with status 401.
C1_LoginExactlyWhen ==
    /\ login.pc = "ok" => (login.found = 1 /\ login.bound /\ login.wrote)
    /\ login.pc = "failed" =>
          (~(login.found = 1 /\ login.bound) /\ login.status = 401)

\* C2: a step of login changes the stored session only as the last step of
\* an attempt that completed the service bind, the search, the user bind and
\* the role lookup, and whose submitted secret is the secret of the resolved
\* entry; an attempt that has not ended successfully has written nothing.
C2_NoPartialSession ==
    [][/\ (login' # login /\ carrier' # carrier) =>
              (/\ login'.pc = "ok"
               /\ login'.done = Phases
               /\ \E e \in Entries :
                     e.dn = login'.user_dn /\ e.secret = login'.password)
       /\ login'.wrote => (login'.pc = "ok" /\ login'.done = Phases)]_vars

\* A login rejected by the user bind for a wrong secret, no session stored.
C2_Witness ==
    /\ login.pc = "failed"
    /\ login.done = {"service_bind", "search"}
    /\ ~SecretMatches
    /\ ~login.wrote
    /\ carrier = Missing

\* C3: require_user on a session record with expires_at <= now fails with
\* 401, returns no session, and leaves no session record stored.
C3_ExpiredRejected ==
    (/\ gres.op = "require_user"
     /\ WellFormed(gres.in)
     /\ gres.in.expires_at.n <= now) =>
        (gres.status = 401 /\ ~gres.has /\ carrier = Missing)

\* require_user has rejected a record that expires at this very instant.
C3_Witness ==
    /\ gres.op = "require_user"
    /\ WellFormed(gres.in)
    /\ gres.in.expires_at.n = now
    /\ gres.status = 401
    /\ carrier = Missing

\* C4: a require_user call with more than TTL/2 of lifetime left returns the
\* record and leaves it as it is; a call with at most TTL/2 (and more than
\* 0) left stores and returns a record with the same subject and role,
\* issued now, whose expires_at is greater than the previous one.
C4_SlidingRenewal ==
    (gres.op = "require_user" /\ Validates(gres.in, now)) =>
        LET old == gres.in.expires_at.n
        IN  /\ gres.status = 200 /\ gres.has
            /\ gres.user.uid = gres.in.uid
            /\ gres.user.is_admin = RoleOf(gres.in)
            /\ 2 * (old - now) > TTL =>
                  /\ carrier = gres.in
                  /\ gres.user.issued_at = gres.in.issued_at.n
                  /\ gres.user.expires_at = old
            /\ 2 * (old - now) <= TTL =>
                  /\ gres.user.expires_at > old
                  /\ gres.user.issued_at = now
                  /\ carrier = Stored(gres.user)

\* A call in the second half of the lifetime has replaced the record.
C4_Witness ==
    /\ gres.op = "require_user"
    /\ Validates(gres.in, now)
    /\ 2 * (gres.in.expires_at.n - now) <= TTL
    /\ carrier # gres.in
    /\ gres.user.is_admin

\* C5: require_user on the record establish_session has just stored, at the
\* instant it was stored, returns a session with the subject and the role
\* login resolved and with expires_at - issued_at = TTL.
C5_RoundTrip ==
    (/\ gres.op = "require_user"
     /\ login.pc = "ok"
     /\ gres.in = Stored(login.session)
     /\ login.session.issued_at = now) =>
        /\ gres.status = 200 /\ gres.has
        /\ gres.user.uid = login.uid_value
        /\ gres.user.is_admin = login.is_user_admin
        /\ gres.user.expires_at - gres.user.issued_at = TTL

\* require_user has returned the session an admin login issued at this instant.
C5_Witness ==
    /\ gres.op = "require_user"
    /\ login.pc = "ok"
    /\ login.is_user_admin
    /\ gres.in = Stored(login.session)
    /\ login.session.issued_at = now
    /\ gres.has

\* C6: require_admin on a record that validates and carries the Standard
\* role fails with 403 and returns no session.
C6_StandardForbidden ==
    (/\ gres.op = "require_admin"
     /\ Validates(gres.in, now)
     /\ ~RoleOf(gres.in)) =>
        (gres.status = 403 /\ ~gres.has)

\* require_admin has refused a valid Standard session.
C6_Witness ==
    /\ gres.op = "require_admin"
    /\ Validates(gres.in, now)
    /\ ~RoleOf(gres.in)
    /\ gres.status = 403

C9_AmbiguityRejected ==
    (login.found >= 2 /\ login.pc \in {"ok", "failed"}) =>
        (login.pc = "failed" /\ login.status = 401 /\ ~login.wrote)

\* C10: any two failed logins get the same response (status and detail).
C10_OpaqueFailure ==
    (login.pc = "failed" /\ lastFail # NoResponse) =>
        [status |-> login.status, detail |-> login.detail] = lastFail

\* C11: a login whose user bind succeeded never ends with a failure: when
\* the role lookup fails the login ends with a Standard session issued.
C11_RoleLookupNeverAborts ==
    (login.pc \in {"ok", "failed"} /\ login.bound) =>
        (login.pc = "ok" /\ login.wrote)

\* C12: a successful login issues the Admin role exactly when the verified
\* dn was a member of the admin group at the role lookup; require_admin on
\* the issued record succeeds for a member and fails for a non-member.
C12_RoleIffMember ==
    /\ login.pc = "ok" =>
          /\ login.is_user_admin = login.member
          /\ login.session.is_admin = login.member
    /\ (/\ gres.op = "require_admin"
        /\ login.pc = "ok"
        /\ gres.in = Stored(login.session)
        /\ login.session.expires_at > now) =>
          (gres.has = login.member)

\* C12 as amended: the Admin role is issued exactly when the dn was a member
\* at the role lookup and the role search returned the group; a search that
\* fails without raising issues Standard.  require_admin on the issued
\* record succeeds when it was issued as Admin and answers 403 otherwise.
C12_RoleIffMemberFound ==
    /\ login.pc = "ok" =>
          /\ login.is_user_admin = (login.member /\ login.role_out = "ok")
          /\ login.session.is_admin = login.is_user_admin
          /\ login.session.uid = login.uid_value
    /\ (/\ gres.op = "require_admin"
        /\ login.pc = "ok"
        /\ gres.in = Stored(login.session)
        /\ login.session.expires_at > now) =>
          /\ gres.has = (login.member /\ login.role_out = "ok")
          /\ ~gres.has => gres.status = 403

\* require_admin has accepted the record issued to a member of the group.
C12_Witness ==
    /\ gres.op = "require_admin"
    /\ login.pc = "ok"
    /\ login.member
    /\ login.role_out = "ok"
    /\ gres.in = Stored(login.session)
    /\ gres.has

\* C13: while the carrier descends from a record login issued, it holds the
\* subject and the role issued at login, and every session a guard returns
\* has that subject and that role, whatever renewals and changes of the
\* group membership happened since.
C13_ChainKeepsIdentity ==
    issuedAs # NoIssue =>
        /\ WellFormed(carrier)
        /\ carrier.uid = issuedAs.uid
        /\ RoleOf(carrier) = issuedAs.is_admin
        /\ gres.has =>
              /\ gres.user.uid = issuedAs.uid
              /\ gres.user.is_admin = issuedAs.is_admin

\* A guard has renewed alice's Admin session after alice left the group.
C13_Witness ==
    /\ issuedAs = [uid |-> "alice", is_admin |-> TRUE]
    /\ ToggledDn \notin admins
    /\ gres.has
    /\ gres.user.issued_at = now
    /\ carrier # gres.in

\* C14: a login that fails in the service bind, the identity search or the
\* user bind (a directory failure included) ends with status 401 and one of
\* the handler's two fixed details, and has issued no session.
C14_DirectoryFailureIs401 ==
    (login.pc = "failed" /\ "user_bind" \notin login.done) =>
        /\ login.status = 401
        /\ login.detail \in {"Invalid credentials", "Invalid user"}
        /\ ~login.wrote
        /\ login.session = NoUser

\* The service bind has failed: the service secret is right, so the
\* directory did not answer.
C14_Witness ==
    /\ login.pc = "failed"
    /\ login.done = {}
    /\ login.status = 401

\* The phases an attempt can have completed, in the order of the handler.
PhasePrefixes ==
    { {},
      {"service_bind"},
      {"service_bind", "search"},
      {"service_bind", "search", "user_bind"},
      {"service_bind", "search", "user_bind", "role_bind"},
      Phases }

\* C15: the phases of an attempt complete in the order service bind, search,
\* user bind, role bind, role search, one per step and each at most once;
\* the user bind is made as a dn the search returned for the submitted
\* identity and the role lookup starts only after that bind succeeded with
\* the submitted secret; the block of the service connection of the search
\* is left before the user bind and the role lookup runs inside the block of
\* the user connection.
C15_PhasesInOrder ==
    /\ [](/\ login.done \in PhasePrefixes
          /\ login.pc = "search" => login.done = {"service_bind"}
          /\ login.pc = "user_bind" =>
                /\ login.done = {"service_bind", "search"}
                /\ \E e \in Matches(login.username) : e.dn = login.user_dn
          /\ login.pc \in {"role_bind", "role_search", "ok"} =>
                /\ "user_bind" \in login.done
                /\ login.bound
                /\ SecretMatches
                /\ \E e \in Matches(login.username) : e.dn = login.user_dn
          /\ login.pc = "role_search" => "role_bind" \in login.done
          /\ "service" \in conns => (conns = {"service"} /\ login.pc = "search")
          /\ "user" \in conns => login.pc \in {"role_bind", "role_search"}
          /\ "check" \in conns => (conns = {"user", "check"} /\ login.pc = "role_search"))
    /\ [][login'.done # login.done =>
             \/ login'.done = {}
             \/ /\ login.done \subseteq login'.done
                /\ Cardinality(login'.done) = Cardinality(login.done) + 1]_vars

\* The role search is about to run inside the user connection.
C15_Witness ==
    /\ login.pc = "role_search"
    /\ conns = {"user", "check"}
    /\ login.done = {"service_bind", "search", "user_bind", "role_bind"}

\* C16: optional_user always returns: the session require_user returns on
\* the same stored value at the same time, or None where require_user fails
\* with 401, and it leaves the stored value as require_user leaves it.
C16_OptionalUserNeverFails ==
    gres.op = "optional_user" =>
        LET r == RequireUser(gres.in, now)
        IN  /\ gres.status = 200
            /\ gres.has = (r.status = 200)
            /\ gres.has => gres.user = r.user
            /\ carrier = r.carrier

GuardOps == {"require_user", "require_admin", "optional_user"}

\* C17: logout leaves no session record whatever was stored (so a second
\* logout changes nothing) and answers with the redirect; on a carrier
\* without a record every guard finds no session; and a carrier without a
\* record gets one again only from a login that succeeds (or from the
\* browser presenting another cookie), never from a guard or a logout.
C17_RevokeClears ==
    /\ [](/\ gres.op = "logout" => (carrier = Missing /\ gres.status = 303)
          /\ (gres.op \in GuardOps /\ gres.in = Missing) =>
                /\ ~gres.has
                /\ carrier = Missing
                /\ gres.status = IF gres.op = "optional_user" THEN 200 ELSE 401)
    /\ [][(carrier = Missing /\ carrier' # Missing) =>
             /\ gres' = NoCall
             /\ login' # login => (login'.pc = "ok" /\ login'.wrote)]_vars

\* A logout has removed a session record that was still valid.
C17_Witness ==
    /\ gres.op = "logout"
    /\ Validates(gres.in, now)
    /\ carrier = Missing

\* C20: after a guard call the carrier holds no session record or a
\* complete record with expires_at > now.
C20_NoInvalidLeft ==
    gres.op \in GuardOps => (carrier = Missing \/ Validates(carrier, now))

\* C20 as amended: after a guard call the carrier holds no session record,
\* or a complete record with expires_at > now, or the record the request
\* came with when that record is not well formed (it is left as found); what
\* a guard writes is either nothing or a record issued now that expires at
\* now + TTL.
C20_NoInvalidWritten ==
    gres.op \in GuardOps =>
        /\ \/ carrier = Missing
           \/ Validates(carrier, now)
           \/ (carrier = gres.in /\ ~WellFormed(gres.in))
        /\ carrier # gres.in =>
              \/ carrier = Missing
              \/ /\ carrier.shape = "dict"
                 /\ carrier.keys = SessionKeys
                 /\ carrier.issued_at = Num(now)
                 /\ carrier.expires_at = Num(now + TTL)

\* require_user has answered 401 to a dict lacking a key and left it stored.
C20_Witness ==
    /\ gres.op = "require_user"
    /\ gres.in.shape = "dict"
    /\ gres.in.keys # SessionKeys
    /\ gres.status = 401
    /\ carrier = gres.in

\* C21: every record a login or a guard writes into the carrier is complete,
\* has issued_at equal to the time of the write and expires_at equal to
\* issued_at + TTL, hence issued_at < expires_at.
C21_WrittenRecordTimes ==
    [][(/\ carrier' # carrier
        /\ carrier' # Missing
        /\ (gres'.op \in GuardOps \/ login' # login)) =>
          /\ WellFormed(carrier')
          /\ carrier'.issued_at = Num(now)
          /\ carrier'.expires_at = Num(now + TTL)
          /\ carrier'.issued_at.n < carrier'.expires_at.n
          /\ carrier'.expires_at.n - carrier'.issued_at.n = TTL]_vars

\* optional_user has just renewed a Standard session, later than time 0.
C21_Witness ==
    /\ gres.op = "optional_user"
    /\ gres.has
    /\ ~gres.user.is_admin
    /\ now > 0
    /\ carrier # gres.in
    /\ carrier.issued_at = Num(now)

\* C22: a guarded request on a carrier that descends from a login, arriving
\* less than one TTL after the previous guarded request of the chain (or
\* after the login), is not rejected for expiry.
C22_ActiveWithinTtl ==
    [][(/\ gres'.op \in GuardOps
        /\ issuedAs # NoIssue
        /\ now - lastUse < TTL) =>
          /\ carrier' # Missing
          /\ gres'.status # 401]_vars

\* C22 as amended: a guarded request on a carrier that descends from a
\* login, arriving at most TTL/2 after the previous guarded request of the
\* chain (or after the login), is not rejected for expiry: the record stays
\* stored and the chain goes on.  (A request in the first half of the
\* lifetime renews nothing, so a request that comes later than TTL/2 after
\* it can find the record expired.)
C22_ActiveWithinHalfTtl ==
    [][(/\ gres'.op \in GuardOps
        /\ issuedAs # NoIssue
        /\ 2 * (now - lastUse) <= TTL) =>
          /\ carrier' # Missing
          /\ gres'.status # 401
          /\ issuedAs' = issuedAs
          /\ gres'.op \in {"require_user", "optional_user"} => gres'.has]_vars

\* require_user has accepted, one tick after it was issued, the record a
\* login issued, and has not renewed it.
C22_Witness ==
    /\ gres.op = "require_user"
    /\ gres.has
    /\ issuedAs # NoIssue
    /\ login.pc = "ok"
    /\ carrier = Stored(login.session)
    /\ now = login.session.issued_at + 1
    /\ lastUse = now

\* A record whose lifetime is one TTL and that was not issued in the future.
IssuedWithTtl(data, t) ==
    /\ WellFormed(data)
    /\ data.expires_at.n = data.issued_at.n + TTL
    /\ data.issued_at.n <= t

\* C27: every session require_user returns has more than TTL/2 of lifetime
\* left; when the record it was called on was issued with this TTL (by a
\* login or by a renewal) the session returned has at most TTL left; and a
\* record that descends from a login, or that a guard has just written,
\* never expires more than one TTL in the future.
C27_RemainingLifetime ==
    /\ (gres.op = "require_user" /\ gres.has) =>
          /\ 2 * (gres.user.expires_at - now) > TTL
          /\ IssuedWithTtl(gres.in, now) => gres.user.expires_at - now <= TTL
    /\ issuedAs # NoIssue => IssuedWithTtl(carrier, now)
    /\ (gres.op \in GuardOps /\ carrier # gres.in /\ carrier # Missing) =>
          IssuedWithTtl(carrier, now)

\* require_user has returned, unrenewed, a session of a login chain that has
\* TTL - 1 left.
C27_Witness ==
    /\ gres.op = "require_user"
    /\ gres.has
    /\ issuedAs # NoIssue
    /\ carrier = gres.in
    /\ gres.user.expires_at - now = TTL - 1

\* C30: no step of a login attempt other than the last step of a successful
\* one changes the stored session record: a failed attempt, in whatever
\* phase it fails, leaves the record (subject, role, issued_at, expires_at)
\* and the chain it belongs to as they were, and has written nothing.
C30_FailedLoginKeepsCarrier ==
    /\ [][(login' # login /\ login'.pc # "ok") =>
             /\ carrier' = carrier
             /\ issuedAs' = issuedAs
             /\ lastUse' = lastUse]_vars
    /\ [](login.pc = "failed" => (~login.wrote /\ login.session = NoUser))

\* A login as alice has failed in the role lookup while the browser holds
\* the valid Admin session of bob.
C30_Witness ==
    /\ login.pc = "failed"
    /\ login.username = "alice"
    /\ "user_bind" \in login.done
    /\ issuedAs = [uid |-> "bob", is_admin |-> TRUE]
    /\ Validates(carrier, now)
    /\ carrier.uid = "bob"

\* C23: every login attempt that has started eventually ends, with a
\* session issued or with a failure response.
C23_LoginCompletes ==
    (login.pc \notin {"idle", "ok", "failed"}) ~> (login.pc \in {"ok", "failed"})

\* C24: when a login attempt has ended, with a session or with a failure,
\* every directory connection it opened is closed.
C24_ConnectionsClosed ==
    login.pc \in {"ok", "failed"} => (conns = {} /\ login.open = {})

\* C25: whatever attempts failed before, a new login attempt can start; it
\* starts with nothing but the submitted identity and secret and runs from
\* the service bind; and at each phase the successful outcome is possible
\* exactly as in a first attempt: the service binds succeed when the
\* directory answers, the search finds the entries of the identity, the
\* user bind succeeds with the secret of the resolved entry, and the role
\* search ends the attempt with a session stored.
C25_NoLockout ==
    /\ login.pc \in {"idle", "ok", "failed"} => ENABLED LoginStart
    /\ login.pc = "svc_bind" =>
          /\ login = [LoginIdle EXCEPT !.pc = "svc_bind",
                                       !.username = login.username,
                                       !.password = login.password]
          /\ ENABLED (LoginServiceBind /\ login'.pc = "search")
    /\ (login.pc = "search" /\ Matches(login.username) # {}) =>
          ENABLED (LoginSearch /\ login'.pc = "user_bind")
    /\ (login.pc = "user_bind" /\ SecretMatches) =>
          ENABLED (LoginUserBind /\ login'.pc = "role_bind")
    /\ login.pc = "role_bind" =>
          ENABLED (LoginRoleBind /\ login'.pc = "role_search")
    /\ login.pc = "role_search" =>
          ENABLED (LoginRoleSearch /\ login'.pc = "ok"
                                   /\ carrier' = Stored(login'.session))

\* After a failed attempt, a login as alice, whom one entry matches, has
\* ended with a session.
C25_Witness ==
    /\ lastFail # NoResponse
    /\ login.pc = "ok"
    /\ login.username = "alice"
    /\ login.found = 1
    /\ login.done = Phases
    /\ carrier = Stored(login.session)

AdminOps == {"add_user", "edit_user", "delete_user", "change_group"}

IsName(v) == ~v.none /\ \E i \in DOMAIN v.s : v.s[i] # " "

\* The row is effectively locked on day d: the manual lock is set, or it has
\* a winner and a loser, its result was recorded 3 days before d or earlier
\* and the auto-lock has not been released.
EffectivelyLocked(row, d) ==
    \/ row.locked
    \/ /\ IsName(row.ganador1) \/ IsName(row.ganador2)
       /\ IsName(row.perdedor1) \/ IsName(row.perdedor2)
       /\ ~row.resultado_registrado.none
       /\ row.resultado_registrado.day + 3 <= d
       /\ ~row.auto_lock_released

\* Worker r takes a new request at this step.
Starts(r) == Free(r) /\ \E q \in reqs' : q.id = r /\ q \notin reqs

\* C28: an edit or delete request that reads a bet that is effectively
\* locked leaves the row as it is and, unless an administrator sends it,
\* ends there with 403 (401 without a session): only an administrator's
\* request goes on to its write.
C28_LockedBetRefused ==
    [][\A r \in Requests :
          (Starts(r) /\ bet # <<>> /\ EffectivelyLocked(bet[1], today)) =>
              /\ bet' = bet
              /\ \A q \in reqs' :
                    q.id = r =>
                        IF q.pc = "write" THEN q.is_admin
                        ELSE q.status \in {401, 403}]_vars

\* A request was refused with 403 on a bet with no manual lock whose result
\* is exactly AUTO_LOCK_DAYS old.
C28_Witness ==
    /\ bet # <<>>
    /\ ~bet[1].locked
    /\ ~bet[1].resultado_registrado.none
    /\ today = bet[1].resultado_registrado.day + 3
    /\ EffectivelyLocked(bet[1], today)
    /\ reqs = {Answered("r1", "editar", 403)}

\* C29: the UPDATE of a user's edit leaves the manual locked flag of the row
\* as it finds it, whatever was committed since the edit read the row.
C29_UserEditKeepsLock ==
    [][\A r \in Requests :
          (/\ InWrite(r)
           /\ Req(r).op = "editar"
           /\ ~Req(r).is_admin
           /\ ~InWrite(r)'
           /\ bet # <<>>
           /\ bet' # <<>>) =>
              bet'[1].locked = bet[1].locked]_vars

\* C31: the step that ends a login with success leaves in the carrier,
\* whatever it held before, a complete record with the subject the search
\* of this login resolved, the role its role lookup found (Admin exactly
\* when the lookup answered and the resolved dn is member of cn=admins),
\* issued_at equal to the time of the step and expires_at one TTL later.
C31_LoginReplacesRecord ==
    [][(login.pc # "ok" /\ login'.pc = "ok") =>
          /\ carrier'.shape = "dict"
          /\ carrier'.keys = SessionKeys
          /\ carrier'.uid = login.uid_value
          /\ carrier'.is_admin =
                IF login'.role_out = "ok" /\ login.user_dn \in admins
                THEN "true" ELSE "false"
          /\ carrier'.issued_at = Num(now)
          /\ carrier'.expires_at = Num(now + TTL)
          /\ issuedAs' = [uid |-> login.uid_value,
                          is_admin |-> carrier'.is_admin = "true"]]_vars

\* The login of alice, who is no member of cn=admins, is in its last step
\* while the carrier holds the valid Admin record of bob, and the step
\* ends it with a Standard record of alice in the carrier.
C31_Witness ==
    /\ login.pc = "role_search"
    /\ login.uid_value = "alice"
    /\ login.user_dn \notin admins
    /\ Validates(carrier, now)
    /\ RoleOf(carrier)
    /\ carrier.uid = "bob"
    /\ ENABLED (/\ LoginRoleSearch
                /\ login'.pc = "ok"
                /\ carrier'.uid = "alice"
                /\ carrier'.is_admin = "false")

\* The row has a result: a winner and a loser that are names.
RowHasResult(row) ==
    /\ IsName(row.ganador1) \/ IsName(row.ganador2)
    /\ IsName(row.perdedor1) \/ IsName(row.perdedor2)

\* C32: a stored bet has a resultado_registrado exactly when it has a
\* result, and a bet without result has auto_lock_released false; so an
\* edit that clears the result leaves both columns cleared.
C32_RecordedIffResult ==
    bet # <<>> =>
        /\ ~bet[1].resultado_registrado.none <=> RowHasResult(bet[1])
        /\ ~RowHasResult(bet[1]) =>
              (bet[1].resultado_registrado.none /\ ~bet[1].auto_lock_released)

\* An edit has cleared the result of a bet: the row has none, and a second
\* edit, still before its UPDATE, has read the same row with its result and
\* the day it was recorded.
C32_Witness ==
    /\ bet # <<>>
    /\ ~RowHasResult(bet[1])
    /\ bet[1].resultado_registrado.none
    /\ ~bet[1].auto_lock_released
    /\ \E q \in reqs : /\ q.pc = "write"
                       /\ q.op = "editar"
                       /\ RowHasResult(q.row)
                       /\ ~q.row.resultado_registrado.none
    /\ \E p \in reqs : p.pc = "done" /\ p.op = "editar" /\ p.status = 303

\* The winners and losers of two rows are the same.
SameResult(a, b) ==
    /\ a.ganador1 = b.ganador1
    /\ a.ganador2 = b.ganador2
    /\ a.perdedor1 = b.perdedor1
    /\ a.perdedor2 = b.perdedor2

\* Worker r, serving an edit of a user (of an administrator when `adm`),
\* sends its UPDATE at this step and the row is there.
Updates(r, adm) ==
    /\ InWrite(r)
    /\ Req(r).op = "editar"
    /\ Req(r).is_admin = adm
    /\ ~InWrite(r)'
    /\ bet # <<>>
    /\ bet' # <<>>

\* C33: the UPDATE of a user's edit of a bet that is not effectively locked
\* stores today and auto_lock_released false when it stores a result that
\* the row did not hold (another one or none), and leaves both columns as
\* they are in the row when it stores the winners and losers the row holds.
C33_UserEditRestartsCountdown ==
    [][\A r \in Requests :
          (Updates(r, FALSE) /\ ~EffectivelyLocked(bet[1], today)) =>
              /\ (/\ RowHasResult(bet'[1])
                  /\ ~RowHasResult(bet[1]) \/ ~SameResult(bet'[1], bet[1])) =>
                    /\ bet'[1].resultado_registrado = Date(today)
                    /\ ~bet'[1].auto_lock_released
              /\ SameResult(bet'[1], bet[1]) =>
                    /\ bet'[1].resultado_registrado = bet[1].resultado_registrado
                    /\ bet'[1].auto_lock_released = bet[1].auto_lock_released]_vars

\* The same for an UPDATE that finds the row as the edit has read it.
UserEditRestartsCountdown_Undisturbed ==
    [][\A r \in Requests :
          (/\ Updates(r, FALSE)
           /\ ~EffectivelyLocked(bet[1], today)
           /\ Selected(bet[1]) = Req(r).row) =>
              /\ (/\ RowHasResult(bet'[1])
                  /\ ~RowHasResult(bet[1]) \/ ~SameResult(bet'[1], bet[1])) =>
                    /\ bet'[1].resultado_registrado = Date(today)
                    /\ ~bet'[1].auto_lock_released
              /\ SameResult(bet'[1], bet[1]) =>
                    /\ bet'[1].resultado_registrado = bet[1].resultado_registrado
                    /\ bet'[1].auto_lock_released = bet[1].auto_lock_released]_vars

\* Lock values that are omitted or that _parse_locked_value does not know.
NoLockWord == {None, Str(<<"x">>)}

\* The UPDATE of an administrator's edit by worker r, built from a form
\* whose lock value is omitted or unknown, can change the manual lock of the
\* row.
CanFlipLock(r) ==
    ENABLED (\E ganador1 \in WinnerInputs, perdedor1 \in LoserInputs,
                bloqueo \in NoLockWord :
                /\ UpdateWith(r, ganador1, perdedor1, bloqueo)
                /\ bet'[1].locked # bet[1].locked)

\* C34: the row an administrator's UPDATE leaves has auto_lock_released
\* false when its manual lock is set, and when the lock is not set and the
\* row has a result it has auto_lock_released true and is not effectively
\* locked on that day; and an administrator's UPDATE built from an omitted
\* or unknown lock value leaves the manual lock of the row as it finds it.
C34_AdminEditLock ==
    /\ [][\A r \in Requests :
              Updates(r, TRUE) =>
                  /\ bet'[1].locked => ~bet'[1].auto_lock_released
                  /\ (~bet'[1].locked /\ RowHasResult(bet'[1])) =>
                        /\ bet'[1].auto_lock_released
                        /\ ~EffectivelyLocked(bet'[1], today)]_vars
    /\ [](\A r \in Requests :
              (/\ InWrite(r)
               /\ Req(r).op = "editar"
               /\ Req(r).is_admin
               /\ bet # <<>>) => ~CanFlipLock(r))

\* The same for an UPDATE that finds the row as the edit has read it.
AdminEditLock_Undisturbed ==
    /\ [][\A r \in Requests :
              Updates(r, TRUE) =>
                  /\ bet'[1].locked => ~bet'[1].auto_lock_released
                  /\ (~bet'[1].locked /\ RowHasResult(bet'[1])) =>
                        /\ bet'[1].auto_lock_released
                        /\ ~EffectivelyLocked(bet'[1], today)]_vars
    /\ [](\A r \in Requests :
              (/\ InWrite(r)
               /\ Req(r).op = "editar"
               /\ Req(r).is_admin
               /\ bet # <<>>
               /\ Selected(bet[1]) = Req(r).row) => ~CanFlipLock(r))

====
